---- MODULE Spec2Model ----
(***************************************************************************)
(* A model of rss2bsky: the feed fetcher with retry and backoff            *)
(* (fastfeedparser_ext._fetch_url), the category collection of             *)
(* fastfeedparser_ext.parse, the text helpers of rss2bsky.py               *)
(* (make_rich, trim_link_description), the feed format dispatch of         *)
(* fastfeedparser_ext.parse, and the successive runs of rss2bsky.main.     *)
(*                                                                         *)
(* Text is modelled as a sequence of one-character strings, so that the    *)
(* regular expressions and str methods of the source are computed          *)
(* character by character.  Durations are in milliseconds.                 *)
(***************************************************************************)
EXTENDS Integers, Sequences, FiniteSets, TLC

VARIABLES
    \* ---- _fetch_url ----
    retries,        \* the retries argument
    backoffInitial, \* DEFAULT_BACKOFF_INITIAL (environment-sourced), ms
    backoffMax,     \* DEFAULT_BACKOFF_MAX (environment-sourced), ms
    attempt,        \* loop variable of "for attempt in range(...)"
    backoff,        \* local backoff, ms
    last_exc,       \* local last_exc
    fpc,            \* position in _fetch_url
    response,       \* what the last opener.open() produced
    fresult,        \* what _fetch_url returned or raised
    nGets,          \* number of opener.open() calls so far
    nSleeps,        \* number of time.sleep() calls so far
    lastSleep,      \* the last time.sleep() call
    lastEvent,      \* "GET" or "SLEEP": the last I/O the function did
    \* ---- parse: the loop body over items ----
    feed_type,      \* "rss", "atom" or "rdf"
    item,           \* the item element: the sequence of its child elements
    collected,      \* _collect_categories: categories before de-duplication
    deduped,        \* _collect_categories: the list it returns
    entry,          \* the entry appended to feed["entries"]
    npc,            \* position in the loop body
    \* ---- make_rich ----
    mr_content,     \* the content argument of make_rich
    spans,          \* the calls made on the TextBuilder, in order
    spc,            \* position in make_rich
    \* ---- trim_link_description ----
    tl_text,        \* the text argument of trim_link_description
    phrase_start_limit,
    total_limit,
    out1,           \* trim_link_description(text, ...)
    out2,           \* trim_link_description(out1, ...)
    tpc,            \* position
    \* ---- parse: from the content to the channel and the items ----
    xml_content,    \* the content: its leading characters and what lxml
                    \* makes of it
    xml_parsed,     \* whether etree.fromstring has been called
    root,           \* the root element
    parse_feed_type, \* local feed_type of parse
    channel,        \* the channel element, by its path from the root
    items,          \* the item elements, by their paths from the root
    error,          \* the message of the ValueError raised
    ppc,            \* position in parse
    \* ---- main, run after run ----
    now,            \* the clock
    feed,           \* the items of the feed, each with its rss_time
    timeline,       \* the posts of the handle on Bluesky
    use_state_file, \* whether --state-file is given
    state_file,     \* the time held by the state file
    last_bsky,      \* local last_bsky of main
    last_feed_check, \* local last_feed_check of main
    cutoff,         \* local cutoff of main
    new_items,      \* local new_items of main
    idx,            \* loop index of run_posting_loop
    attempted,      \* the items send_post was called for in this run
    failed,         \* the items whose send_post raised in some run
    runs,           \* the number of runs of main started
    mpc             \* position in main

fetchVars == <<retries, backoffInitial, backoffMax, attempt, backoff, last_exc,
               fpc, response, fresult, nGets, nSleeps, lastSleep, lastEvent>>

normVars == <<feed_type, item, collected, deduped, entry, npc>>

richVars == <<mr_content, spans, spc>>

trimVars == <<tl_text, phrase_start_limit, total_limit, out1, out2, tpc>>

parseVars == <<xml_content, xml_parsed, root, parse_feed_type, channel, items,
               error, ppc>>

mainVars == <<now, feed, timeline, use_state_file, state_file, last_bsky,
              last_feed_check, cutoff, new_items, idx, attempted, failed,
              runs, mpc>>

vars == <<fetchVars, normVars, richVars, trimVars, parseVars, mainVars>>

notFetchVars == <<normVars, richVars, trimVars, parseVars, mainVars>>
notNormVars == <<fetchVars, richVars, trimVars, parseVars, mainVars>>
notRichVars == <<fetchVars, normVars, trimVars, parseVars, mainVars>>
notTrimVars == <<fetchVars, normVars, richVars, parseVars, mainVars>>
notParseVars == <<fetchVars, normVars, richVars, trimVars, mainVars>>
notMainVars == <<fetchVars, normVars, richVars, trimVars, parseVars>>

(***************************************************************************)
(* Bounds                                                                  *)
(***************************************************************************)
MaxRetries == 4
NegRetries == 1
MaxChildren == 3
MaxAtomChildren == 2
MaxChunks == 4
MaxTextLen == 5
MaxStartLimit == 4
MaxTotalLimit == 6
MaxElements == 2
MaxItems == 3
MaxRuns == 3

(***************************************************************************)
(* Text: str methods on sequences of characters                            *)
(***************************************************************************)
\* Python's None where a str is expected
None == <<"<None>">>

IsSpace(c) == c \in {" ", "\t", "\n"}

RECURSIVE LStrip(_)
LStrip(s) == IF s # <<>> /\ IsSpace(Head(s)) THEN LStrip(Tail(s)) ELSE s

RECURSIVE RStrip(_)
RStrip(s) ==
    IF s # <<>> /\ IsSpace(s[Len(s)]) THEN RStrip(SubSeq(s, 1, Len(s) - 1)) ELSE s

\* str.strip()
Strip(s) == RStrip(LStrip(s))

\* truthiness of an Optional[str]
Truthy(s) == s # None /\ s # <<>>

Min(a, b) == IF a < b THEN a ELSE b
Max(a, b) == IF a > b THEN a ELSE b

RECURSIVE Pow2(_)
Pow2(n) == IF n <= 0 THEN 1 ELSE 2 * Pow2(n - 1)

(***************************************************************************)
(* _fetch_url                                                              *)
(***************************************************************************)
NoStatus == -1
Statuses == {NoStatus, 304, 400, 404, 428, 429, 430, 499, 500, 503, 599, 600}
Reasons == {"Not Found", "Service Unavailable"}

\* FASTFEEDPARSER_BACKOFF_INITIAL / FASTFEEDPARSER_BACKOFF_MAX, milliseconds
BackoffInitials == {1000, 4000}
BackoffMaxes == {3000, 10000}

\* random.random() in thousandths: a value of [0, 1)
RandomSamples == {0, 500, 999}

\* Response bodies.  "gz:xml" is the gzip framing of "xml", "raw:xml" its raw
\* DEFLATE stream, "zl:xml" its zlib-wrapped stream; "amb" is a byte string
\* that inflates under both DEFLATE readings, to different results.
Fail == "<error>"
Contents == {"", "xml", "gz:xml", "raw:xml", "zl:xml", "amb"}
NoHeader == "<none>"
EncodingHeaders == {NoHeader, "gzip", " GZip ", "deflate", "Deflate", "br"}
Charsets == {NoHeader, "utf-8", "x-unknown"}

GzipDecompress(c) == IF c = "gz:xml" THEN "xml" ELSE Fail

RawInflate(c) ==
    CASE c = "raw:xml" -> "xml"
      [] c = "amb" -> "amb-as-raw"
      [] OTHER -> Fail

ZlibDecompress(c) ==
    CASE c = "zl:xml" -> "xml"
      [] c = "amb" -> "amb-as-zlib"
      [] OTHER -> Fail

\* (content_encoding or "").lower().strip()
NormalizeEncoding(h) ==
    CASE h = NoHeader -> ""
      [] h \in {"gzip", " GZip "} -> "gzip"
      [] h \in {"deflate", "Deflate"} -> "deflate"
      [] OTHER -> h

DecodeHttpBodyZlibFirst(content, content_encoding) ==
    IF content = "" THEN content
    ELSE LET enc == NormalizeEncoding(content_encoding) IN
         IF enc = "gzip" THEN GzipDecompress(content)
         ELSE IF enc = "deflate"
              THEN IF ZlibDecompress(content) # Fail
                   THEN ZlibDecompress(content)
                   ELSE RawInflate(content)
              ELSE content

DecodeHttpBody(content, content_encoding) ==
    IF content = "" THEN content
    ELSE LET enc == NormalizeEncoding(content_encoding) IN
         IF enc = "gzip" THEN GzipDecompress(content)
         ELSE IF enc = "deflate"
              THEN IF RawInflate(content) # Fail
                   THEN RawInflate(content)
                   ELSE ZlibDecompress(content)
              ELSE content

\* bytes.decode(charset, errors="replace"): a LookupError for an unknown codec
KnownCharset(cs) == cs = "utf-8"

IsRetryableStatusAny4xx(status) ==
    status # NoStatus /\ (status = 429 \/ (400 <= status /\ status <= 599))

IsRetryableStatus(status) ==
    status # NoStatus /\ (status = 429 \/ (500 <= status /\ status <= 599))

ShouldSleepAfterLast(att, r) == att <= r

ShouldSleep(att, r) == att < r

LastAttempt(r) == Max(1, r)

JitterFactor(r) == 700 + (r * 600) \div 1000

SleepBaseUncapped(b, cap) == b

SleepBase(b, cap) == Min(b, cap)

SleepFor(b, cap, r) == (SleepBase(b, cap) * JitterFactor(r)) \div 1000

NoExc == [kind |-> "none", status |-> NoStatus, reason |-> ""]
NoResponse == [kind |-> "none", status |-> NoStatus, reason |-> "",
               content |-> "", encoding |-> NoHeader, charset |-> NoHeader]
NoResult == [kind |-> "none", status |-> NoStatus, reason |-> "",
             data |-> "", type |-> "", attempts |-> 0]
NoSleep == [k |-> 0, base |-> 0, factor |-> 0, sleep_for |-> 0]

IdleFetch ==
    /\ retries = 0
    /\ backoffInitial = 0
    /\ backoffMax = 0
    /\ attempt = 0
    /\ backoff = 0
    /\ last_exc = NoExc
    /\ fpc = "idle"
    /\ response = NoResponse
    /\ fresult = NoResult
    /\ nGets = 0
    /\ nSleeps = 0
    /\ lastSleep = NoSleep
    /\ lastEvent = "none"

InitFetch ==
    /\ retries \in (0 - NegRetries)..MaxRetries
    /\ backoffInitial \in BackoffInitials
    /\ backoffMax \in BackoffMaxes
    /\ attempt = 1
    /\ backoff = backoffInitial
    /\ last_exc = NoExc
    /\ fpc = IF 1 <= LastAttempt(retries) THEN "open" ELSE "exhausted"
    /\ response = NoResponse
    /\ fresult = NoResult
    /\ nGets = 0
    /\ nSleeps = 0
    /\ lastSleep = NoSleep
    /\ lastEvent = "none"

\* The end of one loop iteration that did not return or raise: the retry path
\* (the sleep, when ShouldSleep) and then the next value of range().
RetryPath ==
    IF ShouldSleep(attempt, retries)
    THEN /\ fpc' = "sleep"
         /\ UNCHANGED attempt
    ELSE IF attempt < LastAttempt(retries)
         THEN /\ fpc' = "open"
              /\ attempt' = attempt + 1
         ELSE /\ fpc' = "exhausted"
              /\ UNCHANGED attempt

\* opener.open() answers 2xx: read, decode and return.
OpenSuccess ==
    /\ fpc = "open"
    /\ \E c \in Contents, h \in EncodingHeaders, cs \in Charsets :
         LET body == DecodeHttpBody(c, h) IN
         /\ response' = [kind |-> "ok", status |-> 200, reason |-> "OK",
                         content |-> c, encoding |-> h, charset |-> cs]
         /\ fresult' =
              IF body = Fail
              THEN [NoResult EXCEPT !.kind = "DecompressError"]
              ELSE IF cs = NoHeader
              THEN [NoResult EXCEPT !.kind = "ok", !.data = body, !.type = "bytes"]
              ELSE IF KnownCharset(cs)
              THEN [NoResult EXCEPT !.kind = "ok", !.data = body, !.type = "str"]
              ELSE [NoResult EXCEPT !.kind = "LookupError"]
    /\ nGets' = nGets + 1
    /\ lastEvent' = "GET"
    /\ fpc' = "done"
    /\ UNCHANGED <<retries, backoffInitial, backoffMax, attempt, backoff,
                   last_exc, nSleeps, lastSleep,
                   notFetchVars>>

\* opener.open() raises HTTPError.
OpenHTTPError ==
    /\ fpc = "open"
    /\ \E status \in Statuses, reason \in Reasons :
         /\ response' = [NoResponse EXCEPT !.kind = "HTTPError",
                                           !.status = status, !.reason = reason]
         /\ last_exc' = [kind |-> "HTTPError", status |-> status, reason |-> reason]
         /\ IF IsRetryableStatus(status)
            THEN /\ RetryPath
                 /\ UNCHANGED fresult
            ELSE /\ fresult' = [NoResult EXCEPT !.kind = "ValueError",
                                                !.status = status, !.reason = reason]
                 /\ fpc' = "done"
                 /\ UNCHANGED attempt
    /\ nGets' = nGets + 1
    /\ lastEvent' = "GET"
    /\ UNCHANGED <<retries, backoffInitial, backoffMax, backoff, nSleeps, lastSleep,
                   notFetchVars>>

\* opener.open() or response.read() raises TimeoutError / socket.timeout.
OpenTimeout ==
    /\ fpc = "open"
    /\ response' = [NoResponse EXCEPT !.kind = "Timeout"]
    /\ last_exc' = [NoExc EXCEPT !.kind = "Timeout"]
    /\ RetryPath
    /\ nGets' = nGets + 1
    /\ lastEvent' = "GET"
    /\ UNCHANGED <<retries, backoffInitial, backoffMax, backoff, fresult,
                   nSleeps, lastSleep,
                   notFetchVars>>

\* opener.open() raises URLError (not an HTTPError).
OpenURLError ==
    /\ fpc = "open"
    /\ response' = [NoResponse EXCEPT !.kind = "URLError"]
    /\ last_exc' = [NoExc EXCEPT !.kind = "URLError"]
    /\ RetryPath
    /\ nGets' = nGets + 1
    /\ lastEvent' = "GET"
    /\ UNCHANGED <<retries, backoffInitial, backoffMax, backoff, fresult,
                   nSleeps, lastSleep,
                   notFetchVars>>

\* time.sleep(sleep_for); backoff *= 2; then the next iteration.
BackoffSleep ==
    /\ fpc = "sleep"
    /\ \E r \in RandomSamples :
         lastSleep' = [k |-> attempt,
                       base |-> SleepBase(backoff, backoffMax),
                       factor |-> JitterFactor(r),
                       sleep_for |-> SleepFor(backoff, backoffMax, r)]
    /\ nSleeps' = nSleeps + 1
    /\ lastEvent' = "SLEEP"
    /\ backoff' = backoff * 2
    /\ IF attempt < LastAttempt(retries)
       THEN /\ fpc' = "open"
            /\ attempt' = attempt + 1
       ELSE /\ fpc' = "exhausted"
            /\ UNCHANGED attempt
    /\ UNCHANGED <<retries, backoffInitial, backoffMax, last_exc, response,
                   fresult, nGets,
                   notFetchVars>>

\* Out of retries: TimeoutError or ConnectionError, the message naming retries.
OutOfRetries ==
    /\ fpc = "exhausted"
    /\ fresult' = [NoResult EXCEPT
                     !.kind = IF last_exc.kind = "Timeout"
                              THEN "TimeoutError" ELSE "ConnectionError",
                     !.attempts = retries]
    /\ fpc' = "done"
    /\ UNCHANGED <<retries, backoffInitial, backoffMax, attempt, backoff,
                   last_exc, response, nGets, nSleeps, lastSleep, lastEvent,
                   notFetchVars>>

NextFetch ==
    \/ OpenSuccess
    \/ OpenHTTPError
    \/ OpenTimeout
    \/ OpenURLError
    \/ BackoffSleep
    \/ OutOfRetries

(***************************************************************************)
(* _collect_categories and the loop body of parse                          *)
(***************************************************************************)
\* A child element of an item: its tag, its text and its term and label
\* attributes (None when absent).
El(tag, text, term, label) ==
    [tag |-> tag, text |-> text, term |-> term, label |-> label]

TextVals == {None, <<" ">>, <<"a">>, <<" ", "a">>, <<"b">>}
TermVals == {None, <<" ">>, <<"a">>, <<"b", " ">>}
LabelVals == {None, <<" ">>, <<"b">>}
AtomTextVals == {None, <<" ", "a">>}

\* Children an RSS or RDF item is drawn from
RssChildren ==
    {El(t, x, None, None) : t \in {"category", "dc:subject"}, x \in TextVals}
    \cup {El("title", <<"a">>, None, None),
          El("atom:category", None, <<"b">>, None)}

\* Children an Atom entry is drawn from
AtomChildren ==
    {El("atom:category", x, a, l) :
        x \in AtomTextVals, a \in TermVals, l \in LabelVals}
    \cup {El("category", <<"b">>, None, None)}

SeqsUpTo(S, n) == UNION {[1..k -> S] : k \in 0..n}

\* item.findall(tag): the children with that tag, in document order
RECURSIVE FindAll(_, _)
FindAll(it, tag) ==
    IF it = <<>> THEN <<>>
    ELSE IF Head(it).tag = tag
         THEN <<Head(it)>> \o FindAll(Tail(it), tag)
         ELSE FindAll(Tail(it), tag)

\* One pass of "for cat in ...: if cat.text: value = strip; if value: append"
RECURSIVE TextCategories(_)
TextCategories(els) ==
    IF els = <<>> THEN <<>>
    ELSE LET cat == Head(els)
             value == Strip(cat.text)
         IN (IF Truthy(cat.text) /\ value # <<>> THEN <<value>> ELSE <<>>)
            \o TextCategories(Tail(els))

\* a or b
PyOr(a, b) == IF Truthy(a) THEN a ELSE b

\* The body of the Atom loop for one category element: what it appends
AtomTerm(cat) ==
    LET t0 == PyOr(cat.term, cat.label)
        term == IF ~Truthy(t0) /\ Truthy(cat.text) THEN Strip(cat.text) ELSE t0
    IN IF Truthy(term) THEN <<Strip(term)>> ELSE <<>>

RECURSIVE AtomCategories(_)
AtomCategories(els) ==
    IF els = <<>> THEN <<>>
    ELSE AtomTerm(Head(els)) \o AtomCategories(Tail(els))

\* _collect_categories up to the de-duplication
CollectRaw(it, ft) ==
    IF ft \in {"rss", "rdf"}
    THEN TextCategories(FindAll(it, "category"))
         \o TextCategories(FindAll(it, "dc:subject"))
    ELSE IF ft = "atom"
    THEN AtomCategories(FindAll(it, "atom:category"))
    ELSE <<>>

Contains(s, v) == \E i \in 1..Len(s) : s[i] = v

RECURSIVE DedupeKeepLast(_)
DedupeKeepLast(categories) ==
    IF categories = <<>> THEN <<>>
    ELSE IF Contains(Tail(categories), Head(categories))
         THEN DedupeKeepLast(Tail(categories))
         ELSE <<Head(categories)>> \o DedupeKeepLast(Tail(categories))

RECURSIVE DedupeFrom(_, _)
DedupeFrom(categories, out) ==
    IF categories = <<>> THEN out
    ELSE IF Contains(out, Head(categories))
         THEN DedupeFrom(Tail(categories), out)
         ELSE DedupeFrom(Tail(categories), Append(out, Head(categories)))

\* "De-duplicate while preserving order"
Dedupe(categories) == DedupeFrom(categories, <<>>)

\* An entry is a dict: the set of its keys and their values
MkEntry(keys, category, tags, title, description) ==
    [keys |-> keys, category |-> category, tags |-> tags,
     title |-> title, description |-> description]

NoEntry == MkEntry({}, <<>>, <<>>, <<>>, <<>>)

\* What the external _parse_feed_entry may hand back
ParsedEntries ==
    { NoEntry,
      MkEntry({"title", "description", "category", "tags"},
              <<"x">>, <<[term |-> <<"x">>]>>, <<" ", "t", " ">>, <<"d", "\n">>),
      MkEntry({"title", "tags"},
              <<>>, <<[term |-> <<"x">>], [term |-> <<"x">>]>>, <<"t">>, <<>>),
      MkEntry({"title", "description", "category", "tags"},
              <<>>, <<>>, <<"t">>, <<"d">>) }

\* [{"term": value} for value in categories]
TagsOf(categories) == [i \in 1..Len(categories) |-> [term |-> categories[i]]]

\* entry.get(key, "")
GetOrEmpty(e, key, value) == IF key \in e.keys THEN value ELSE <<>>

\* Lines 203-210 for one item, given what _parse_feed_entry returned
NormalizeEntry(parsed, categories) ==
    LET e1 == IF categories # <<>>
              THEN [parsed EXCEPT !.keys = @ \cup {"category", "tags"},
                                  !.category = categories[1],
                                  !.tags = TagsOf(categories)]
              ELSE parsed
    IN [e1 EXCEPT !.keys = @ \cup {"title", "description"},
                  !.title = Strip(GetOrEmpty(e1, "title", e1.title)),
                  !.description =
                      Strip(GetOrEmpty(e1, "description", e1.description))]

IdleNormalize ==
    /\ feed_type = "none"
    /\ item = <<>>
    /\ collected = <<>>
    /\ deduped = <<>>
    /\ entry = NoEntry
    /\ npc = "idle"

InitNormalize ==
    /\ feed_type \in {"rss", "rdf", "atom"}
    /\ item \in IF feed_type = "atom"
                THEN SeqsUpTo(AtomChildren, MaxAtomChildren)
                ELSE SeqsUpTo(RssChildren, MaxChildren)
    /\ collected = <<>>
    /\ deduped = <<>>
    /\ entry = NoEntry
    /\ npc = "item"

\* One iteration of "for item in items"
ParseItem ==
    /\ npc = "item"
    /\ \E parsed \in ParsedEntries :
         /\ collected' = CollectRaw(item, feed_type)
         /\ deduped' = Dedupe(collected')
         /\ entry' = NormalizeEntry(parsed, deduped')
    /\ npc' = "done"
    /\ UNCHANGED <<feed_type, item, notNormVars>>

NextNormalize == ParseItem


(***************************************************************************)
(* make_rich                                                               *)
(***************************************************************************)
\* The pieces a content is put together from
Chunks ==
    { <<"h", "t", "t", "p", ":", "/", "/">>,
      <<"h", "t", "t", "p", "s", ":", "/", "/", "x">>,
      <<"#">>, <<"a">>, <<"_">>, <<" ">>, <<"\n">> }

RECURSIVE Flatten(_)
Flatten(ss) == IF ss = <<>> THEN <<>> ELSE Head(ss) \o Flatten(Tail(ss))

Contents4Rich == {Flatten(cs) : cs \in SeqsUpTo(Chunks, MaxChunks)}

\* \w without the underscore: [^\W_]
IsAlnum(c) == c \in {"a", "h", "p", "s", "t", "x"}

\* s[i:] of Python, for a 1-based i
From(s, i) == SubSeq(s, i, Len(s))

StartsWith(s, prefix) ==
    Len(s) >= Len(prefix) /\ SubSeq(s, 1, Len(prefix)) = prefix

\* content.split("\n")
RECURSIVE SplitLines(_, _)
SplitLines(s, cur) ==
    IF s = <<>> THEN <<cur>>
    ELSE IF Head(s) = "\n"
         THEN <<cur>> \o SplitLines(Tail(s), <<>>)
         ELSE SplitLines(Tail(s), Append(cur, Head(s)))

\* The first index >= i of a whitespace character of line, or Len(line) + 1
RECURSIVE NextSpace(_, _)
NextSpace(line, i) ==
    IF i > Len(line) \/ IsSpace(line[i]) THEN i ELSE NextSpace(line, i + 1)

\* https?://[^\s]+ matched at index i: the index after the match, 0 for none
UrlEndAt(line, i) ==
    LET rest == From(line, i)
        p == IF StartsWith(rest, <<"h", "t", "t", "p", "s", ":", "/", "/">>)
             THEN i + 8
             ELSE IF StartsWith(rest, <<"h", "t", "t", "p", ":", "/", "/">>)
             THEN i + 7
             ELSE 0
    IN IF p = 0 \/ p > Len(line) \/ IsSpace(line[p]) THEN 0
       ELSE NextSpace(line, p)

\* The first index >= i of a character that is not alphanumeric
RECURSIVE AlnumEnd(_, _)
AlnumEnd(t, i) ==
    IF i > Len(t) \/ ~IsAlnum(t[i]) THEN i ELSE AlnumEnd(t, i + 1)

\* hashtag_pattern.split(t): the text between the matches of (#[^\W_]+) and,
\* for the capturing group, the matches themselves
RECURSIVE HashtagSplit(_, _, _)
HashtagSplit(t, cursor, i) ==
    IF i > Len(t) THEN <<SubSeq(t, cursor, Len(t))>>
    ELSE IF t[i] = "#" /\ i < Len(t) /\ IsAlnum(t[i + 1])
         THEN LET e == AlnumEnd(t, i + 1)
              IN <<SubSeq(t, cursor, i - 1), SubSeq(t, i, e - 1)>>
                 \o HashtagSplit(t, e, e)
         ELSE HashtagSplit(t, cursor, i + 1)

TextSpan(t) == [kind |-> "text", text |-> t, arg |-> <<>>]
LinkSpan(t, url) == [kind |-> "link", text |-> t, arg |-> url]
TagSpan(t, tag) == [kind |-> "tag", text |-> t, arg |-> tag]

PieceSpanWithoutHash(t) ==
    IF StartsWith(t, <<"#">>)
    THEN TagSpan(Tail(t), Strip(Tail(t)))
    ELSE TextSpan(t)

\* The body of "for t in tag_split"
PieceSpan(t) ==
    IF StartsWith(t, <<"#">>)
    THEN TagSpan(t, Strip(Tail(t)))
    ELSE TextSpan(t)

\* "if before: tag_split = ...; for t in tag_split: ..." (and the same for tail)
HashtagSpans(t) ==
    IF t = <<>> THEN <<>>
    ELSE LET pieces == HashtagSplit(t, 1, 1)
         IN [k \in 1..Len(pieces) |-> PieceSpan(pieces[k])]

\* The loop over url_pattern.finditer(line) from index i, and the tail
RECURSIVE LineSpans(_, _, _)
LineSpans(line, cursor, i) ==
    IF i > Len(line) THEN HashtagSpans(From(line, cursor))
    ELSE LET e == UrlEndAt(line, i) IN
         IF e = 0 THEN LineSpans(line, cursor, i + 1)
         ELSE LET url == SubSeq(line, i, e - 1)
              IN HashtagSpans(SubSeq(line, cursor, i - 1))
                 \o <<LinkSpan(url, url)>>
                 \o LineSpans(line, e, e)

RECURSIVE LinesSpans(_)
LinesSpans(lines) ==
    IF lines = <<>> THEN <<>>
    ELSE LineSpans(Head(lines), 1, 1) \o <<TextSpan(<<"\n">>)>>
         \o LinesSpans(Tail(lines))

MakeRichSpans(c) == LinesSpans(SplitLines(c, <<>>))

IdleRich ==
    /\ mr_content = <<>>
    /\ spans = <<>>
    /\ spc = "idle"

InitRich ==
    /\ mr_content \in Contents4Rich
    /\ spans = <<>>
    /\ spc = "call"

MakeRich ==
    /\ spc = "call"
    /\ spans' = MakeRichSpans(mr_content)
    /\ spc' = "done"
    /\ UNCHANGED <<mr_content, notRichVars>>

NextRich == MakeRich

(***************************************************************************)
(* trim_link_description                                                   *)
(***************************************************************************)
TrimChars == {"a", " ", ".", "!"}

TrimTexts == {None} \cup SeqsUpTo(TrimChars, MaxTextLen)

IsTerminator(c) == c \in {".", "!", "?"}

\* re.sub(r"\s+", " ", text)
RECURSIVE CollapseSpaces(_)
CollapseSpaces(s) ==
    IF s = <<>> THEN <<>>
    ELSE IF IsSpace(Head(s))
         THEN <<" ">> \o CollapseSpaces(LStrip(s))
         ELSE <<Head(s)>> \o CollapseSpaces(Tail(s))

NormalizeSpaces(s) == Strip(CollapseSpaces(s))

\* The first index >= i of a terminator of s, or Len(s) + 1
RECURSIVE NextTerminator(_, _)
NextTerminator(s, i) ==
    IF i > Len(s) \/ IsTerminator(s[i]) THEN i ELSE NextTerminator(s, i + 1)

\* The loop over re.finditer(r"[^.!?]+[.!?]?", normalized) from index i:
\* the (match.start(), phrase) pairs of the non-empty phrases
RECURSIVE PhrasesFrom(_, _)
PhrasesFrom(s, i) ==
    IF i > Len(s) THEN <<>>
    ELSE IF IsTerminator(s[i]) THEN PhrasesFrom(s, i + 1)
    ELSE LET j == NextTerminator(s, i)
             e == IF j <= Len(s) THEN j + 1 ELSE j
             phrase == Strip(SubSeq(s, i, e - 1))
         IN (IF phrase # <<>> THEN <<[start |-> i - 1, phrase |-> phrase]>>
             ELSE <<>>)
            \o PhrasesFrom(s, e)

\* selected: the phrases with start <= phrase_start_limit
RECURSIVE SelectPhrases(_, _)
SelectPhrases(phrases, limit) ==
    IF phrases = <<>> THEN <<>>
    ELSE (IF Head(phrases).start <= limit THEN <<Head(phrases).phrase>> ELSE <<>>)
         \o SelectPhrases(Tail(phrases), limit)

RECURSIVE JoinNoSpace(_)
JoinNoSpace(selected) ==
    IF selected = <<>> THEN <<>>
    ELSE Head(selected) \o JoinNoSpace(Tail(selected))

\* " ".join(selected)
RECURSIVE Join(_)
Join(selected) ==
    IF selected = <<>> THEN <<>>
    ELSE IF Len(selected) = 1 THEN Head(selected)
    ELSE Head(selected) \o <<" ">> \o Join(Tail(selected))

KeepAllSelected(selected, limit) == Strip(Join(selected))

\* The while loop: drop the last phrase while more than one is selected and
\* the joined text is longer than total_limit
RECURSIVE TrimToTotal(_, _)
TrimToTotal(selected, limit) ==
    LET combined == Strip(Join(selected))
    IN IF Len(selected) > 1 /\ Len(combined) > limit
       THEN TrimToTotal(SubSeq(selected, 1, Len(selected) - 1), limit)
       ELSE combined

\* normalized[:phrase_start_limit].rstrip(), for a limit >= 0
Prefix(s, n) == RStrip(SubSeq(s, 1, Min(n, Len(s))))

TrimLinkDescription(t, startLimit, totalLimit) ==
    IF t = None \/ t = <<>> THEN t
    ELSE LET normalized == NormalizeSpaces(t) IN
         IF normalized = <<>> THEN normalized
         ELSE LET phrases == PhrasesFrom(normalized, 1) IN
              IF phrases = <<>> THEN Prefix(normalized, startLimit)
              ELSE LET selected == SelectPhrases(phrases, startLimit) IN
                   IF selected = <<>> THEN Prefix(normalized, startLimit)
                   ELSE TrimToTotal(selected, totalLimit)

IdleTrim ==
    /\ tl_text = <<>>
    /\ phrase_start_limit = 0
    /\ total_limit = 0
    /\ out1 = <<>>
    /\ out2 = <<>>
    /\ tpc = "idle"

InitTrim ==
    /\ tl_text \in TrimTexts
    /\ phrase_start_limit \in 0..MaxStartLimit
    /\ total_limit \in 0..MaxTotalLimit
    /\ out1 = <<>>
    /\ out2 = <<>>
    /\ tpc = "call"

\* trim_link_description(text, phrase_start_limit, total_limit)
Trim ==
    /\ tpc = "call"
    /\ out1' = TrimLinkDescription(tl_text, phrase_start_limit, total_limit)
    /\ tpc' = "once"
    /\ UNCHANGED <<tl_text, phrase_start_limit, total_limit, out2, notTrimVars>>

\* the same call on its own result
TrimAgain ==
    /\ tpc = "once"
    /\ out2' = TrimLinkDescription(out1, phrase_start_limit, total_limit)
    /\ tpc' = "twice"
    /\ UNCHANGED <<tl_text, phrase_start_limit, total_limit, out1, notTrimVars>>

NextTrim == Trim \/ TrimAgain

(***************************************************************************)
(* parse: the content check, the XML parser and the feed format dispatch   *)
(***************************************************************************)
AtomNS == "http://www.w3.org/2005/Atom"
RdfNS == "http://www.w3.org/1999/02/22-rdf-syntax-ns#"
Rss1NS == "http://purl.org/rss/1.0/"
OtherNS == "http://example.org/ns"

\* The tag of an element: "{ns}local" in lxml, "local" when ns is empty
QName(ns, local) == [ns |-> ns, local |-> local]

Element(tag, children) == [tag |-> tag, children |-> children]

NoElement == Element(QName("", ""), <<>>)

\* An element is named by its path from the root: <<>> is the root, <<k>> its
\* k-th child, <<k, j>> the j-th child of that one
NoPath == <<0>>

RootTags ==
    { QName("", "rss"), QName(OtherNS, "rss"),
      QName(AtomNS, "feed"), QName("", "feed"),
      QName(RdfNS, "RDF"), QName("", "RDF"),
      QName("", "html") }

ChildTags ==
    { QName("", "channel"), QName(OtherNS, "channel"),
      QName("", "item"), QName(Rss1NS, "item"), QName(AtomNS, "entry") }

Leaf(tag) == Element(tag, <<>>)

\* The children a child of the root may have
GrandChildren ==
    { <<>>,
      <<Leaf(QName("", "item")), Leaf(QName(AtomNS, "entry")),
        Leaf(QName("", "item"))>>,
      <<Leaf(QName(Rss1NS, "item")), Leaf(QName("", "item"))>>,
      <<Leaf(QName(AtomNS, "entry"))>> }

Children == {Element(t, g) : t \in ChildTags, g \in GrandChildren}

Roots == {Element(t, c) : t \in RootTags, c \in SeqsUpTo(Children, MaxElements)}

\* A content: the characters it begins with, and what etree.fromstring makes
\* of it with the recovering parser ("root", "XMLSyntaxError" or "None")
Content(chars, etree, el) == [chars |-> chars, etree |-> etree, root |-> el]

BlankChars == {<<>>, <<" ">>, <<"\n", " ">>}

MarkupChars == {<<"<">>, <<" ", "<">>}

XmlContents ==
    {Content(c, "None", NoElement) : c \in BlankChars}
    \cup {Content(c, r, NoElement) :
            c \in MarkupChars, r \in {"XMLSyntaxError", "None"}}
    \cup {Content(c, "root", el) : c \in MarkupChars, el \in Roots}

\* el.findall(tag): the children of el with that tag, from the k-th on
RECURSIVE FindChildren(_, _, _, _)
FindChildren(el, path, tag, k) ==
    IF k > Len(el.children) THEN <<>>
    ELSE (IF el.children[k].tag = tag THEN <<Append(path, k)>> ELSE <<>>)
         \o FindChildren(el, path, tag, k + 1)

FindDirectOnly(el, path, tag, k) == FindChildren(el, path, tag, k)

\* el.findall(".//" + tag): the elements beneath el with that tag, in
\* document order, from the k-th child on
RECURSIVE FindDescendants(_, _, _, _)
FindDescendants(el, path, tag, k) ==
    IF k > Len(el.children) THEN <<>>
    ELSE LET c == el.children[k]
             p == Append(path, k)
         IN (IF c.tag = tag THEN <<p>> ELSE <<>>)
            \o FindDescendants(c, p, tag, 1)
            \o FindDescendants(el, path, tag, k + 1)

\* el.find(tag): the first child with that tag, or None
Find(el, tag) ==
    LET found == FindChildren(el, <<>>, tag, 1)
    IN IF found = <<>> THEN NoPath ELSE Head(found)

\* root.tag == "rss" or root.tag.endswith("}rss")
IsRssTag(tag) ==
    \/ tag = QName("", "rss")
    \/ tag.ns # "" /\ tag.local = "rss"

NoError == ""
EmptyContentError == "Empty content"
SyntaxErrorError == "Failed to parse XML content: XMLSyntaxError"
RootNoneError == "Failed to parse XML content: root element is None"
MissingChannelError == "Invalid RSS feed: missing channel element"
UnknownFeedTypeError == "Unknown feed type"

IdleParse ==
    /\ xml_content = Content(<<>>, "None", NoElement)
    /\ xml_parsed = FALSE
    /\ root = NoElement
    /\ parse_feed_type = ""
    /\ channel = NoPath
    /\ items = <<>>
    /\ error = NoError
    /\ ppc = "idle"

InitParse ==
    /\ xml_content \in XmlContents
    /\ xml_parsed = FALSE
    /\ root = NoElement
    /\ parse_feed_type = ""
    /\ channel = NoPath
    /\ items = <<>>
    /\ error = NoError
    /\ ppc = "check"

\* if not xml_content.strip(): raise ValueError("Empty content")
CheckEmpty ==
    /\ ppc = "check"
    /\ IF Strip(xml_content.chars) = <<>>
       THEN error' = EmptyContentError /\ ppc' = "raised"
       ELSE error' = error /\ ppc' = "fromstring"
    /\ UNCHANGED <<xml_content, xml_parsed, root, parse_feed_type, channel, items,
                   notParseVars>>

\* root = etree.fromstring(xml_content, parser=parser), and the two failures
FromString ==
    /\ ppc = "fromstring"
    /\ xml_parsed' = TRUE
    /\ CASE xml_content.etree = "XMLSyntaxError" ->
              error' = SyntaxErrorError /\ ppc' = "raised" /\ root' = root
         [] xml_content.etree = "None" ->
              error' = RootNoneError /\ ppc' = "raised" /\ root' = root
         [] OTHER ->
              error' = error /\ ppc' = "dispatch" /\ root' = xml_content.root
    /\ UNCHANGED <<xml_content, parse_feed_type, channel, items, notParseVars>>

\* if root.tag == "rss" or root.tag.endswith("}rss"):
DispatchRss ==
    /\ ppc = "dispatch"
    /\ IsRssTag(root.tag)
    /\ parse_feed_type' = "rss"
    /\ channel' = Find(root, QName("", "channel"))
    /\ IF channel' = NoPath
       THEN error' = MissingChannelError /\ ppc' = "raised" /\ items' = items
       ELSE /\ items' = FindChildren(root.children[channel'[1]], channel',
                                     QName("", "item"), 1)
            /\ error' = error
            /\ ppc' = "done"
    /\ UNCHANGED <<xml_content, xml_parsed, root, notParseVars>>

\* elif root.tag == "{http://www.w3.org/2005/Atom}feed":
DispatchAtom ==
    /\ ppc = "dispatch"
    /\ ~IsRssTag(root.tag)
    /\ root.tag = QName(AtomNS, "feed")
    /\ parse_feed_type' = "atom"
    /\ channel' = <<>>
    /\ items' = FindDescendants(root, <<>>, QName(AtomNS, "entry"), 1)
    /\ ppc' = "done"
    /\ UNCHANGED <<xml_content, xml_parsed, root, error, notParseVars>>

\* elif root.tag == "{http://www.w3.org/1999/02/22-rdf-syntax-ns#}RDF":
DispatchRdf ==
    /\ ppc = "dispatch"
    /\ ~IsRssTag(root.tag)
    /\ root.tag # QName(AtomNS, "feed")
    /\ root.tag = QName(RdfNS, "RDF")
    /\ parse_feed_type' = "rdf"
    /\ channel' = <<>>
    /\ LET found == FindDescendants(root, <<>>, QName(Rss1NS, "item"), 1)
       IN items' = IF found = <<>>
                   THEN FindChildren(root, <<>>, QName("", "item"), 1)
                   ELSE found
    /\ ppc' = "done"
    /\ UNCHANGED <<xml_content, xml_parsed, root, error, notParseVars>>

\* else: raise ValueError(f"Unknown feed type: {root.tag}")
DispatchUnknown ==
    /\ ppc = "dispatch"
    /\ ~IsRssTag(root.tag)
    /\ root.tag # QName(AtomNS, "feed")
    /\ root.tag # QName(RdfNS, "RDF")
    /\ error' = UnknownFeedTypeError
    /\ ppc' = "raised"
    /\ UNCHANGED <<xml_content, xml_parsed, root, parse_feed_type, channel, items,
                   notParseVars>>

NextParse ==
    \/ CheckEmpty
    \/ FromString
    \/ DispatchRss
    \/ DispatchAtom
    \/ DispatchRdf
    \/ DispatchUnknown

(***************************************************************************)
(* main, run after run (DEBUG_MODE off)                                    *)
(***************************************************************************)
\* arrow.get(0)
Epoch == 0

\* None where a time is expected
NoCheck == -1

\* get_last_bsky: the creation time of the most recent post, or the epoch
GetLastBsky(tl) == IF tl = <<>> THEN Epoch ELSE Head(tl).created_at

\* read_last_feed_check(args.state_file)
ReadLastFeedCheck(use, file) == IF use THEN file ELSE NoCheck

\* cutoff = max(last_bsky, last_feed_check) if last_feed_check else last_bsky
Cutoff(bsky, check) == IF check # NoCheck THEN Max(bsky, check) ELSE bsky

\* The items of the feed with rss_time > cutoff, in feed order from the k-th
RECURSIVE ItemsAfter(_, _, _)
ItemsAfter(f, c, k) ==
    IF k > Len(f) THEN <<>>
    ELSE (IF f[k] > c THEN <<k>> ELSE <<>>) \o ItemsAfter(f, c, k + 1)

\* list.sort(key=rss_time) is stable: e goes behind the items not later than it
RECURSIVE InsertByTime(_, _, _)
InsertByTime(f, sorted, e) ==
    IF sorted = <<>> THEN <<e>>
    ELSE IF f[Head(sorted)] <= f[e]
         THEN <<Head(sorted)>> \o InsertByTime(f, Tail(sorted), e)
         ELSE <<e>> \o sorted

RECURSIVE SortByTime(_, _)
SortByTime(f, ids) ==
    IF ids = <<>> THEN <<>>
    ELSE InsertByTime(f, SortByTime(f, SubSeq(ids, 1, Len(ids) - 1)),
                      ids[Len(ids)])

IdleMain ==
    /\ now = 1
    /\ feed = <<>>
    /\ timeline = <<>>
    /\ use_state_file = FALSE
    /\ state_file = NoCheck
    /\ last_bsky = Epoch
    /\ last_feed_check = NoCheck
    /\ cutoff = Epoch
    /\ new_items = <<>>
    /\ idx = 0
    /\ attempted = {}
    /\ failed = {}
    /\ runs = 0
    /\ mpc = "off"

InitMain ==
    /\ now = 1
    /\ feed = <<>>
    /\ timeline = <<>>
    /\ use_state_file \in BOOLEAN
    /\ state_file = NoCheck
    /\ last_bsky = Epoch
    /\ last_feed_check = NoCheck
    /\ cutoff = Epoch
    /\ new_items = <<>>
    /\ idx = 0
    /\ attempted = {}
    /\ failed = {}
    /\ runs = 0
    /\ mpc = "start"

\* The site publishes an item; what happens later happens at a later time
Publish ==
    /\ mpc # "off"
    /\ Len(feed) < MaxItems
    /\ feed' = Append(feed, now)
    /\ now' = now + 1
    /\ UNCHANGED <<timeline, use_state_file, state_file, last_bsky,
                   last_feed_check, cutoff, new_items, idx, attempted, failed,
                   runs, mpc, notMainVars>>

\* main up to the cutoff: create_client, get_last_bsky, read_last_feed_check
Login ==
    /\ mpc = "start"
    /\ runs < MaxRuns
    /\ runs' = runs + 1
    /\ last_bsky' = GetLastBsky(timeline)
    /\ last_feed_check' = ReadLastFeedCheck(use_state_file, state_file)
    /\ cutoff' = Cutoff(last_bsky', last_feed_check')
    /\ new_items' = <<>>
    /\ idx' = 0
    /\ attempted' = {}
    /\ mpc' = "fetch"
    /\ UNCHANGED <<now, feed, timeline, use_state_file, state_file, failed,
                   notMainVars>>

\* fetch_new_feed_items: the items with rss_time > cutoff, sorted by rss_time
FetchNewFeedItems ==
    /\ mpc = "fetch"
    /\ new_items' = SortByTime(feed, ItemsAfter(feed, cutoff, 1))
    /\ idx' = 1
    /\ mpc' = "post"
    /\ UNCHANGED <<now, feed, timeline, use_state_file, state_file, last_bsky,
                   last_feed_check, cutoff, attempted, failed, runs,
                   notMainVars>>

\* fastfeedparser.parse raises: main ends there
FetchRaises ==
    /\ mpc = "fetch"
    /\ mpc' = "start"
    /\ UNCHANGED <<now, feed, timeline, use_state_file, state_file, last_bsky,
                   last_feed_check, cutoff, new_items, idx, attempted, failed,
                   runs, notMainVars>>

\* run_posting_loop: client.send_post returns
SendPostOk ==
    /\ mpc = "post"
    /\ idx <= Len(new_items)
    /\ timeline' = <<[item |-> new_items[idx], created_at |-> now]>> \o timeline
    /\ now' = now + 1
    /\ attempted' = attempted \cup {new_items[idx]}
    /\ idx' = idx + 1
    /\ UNCHANGED <<feed, use_state_file, state_file, last_bsky,
                   last_feed_check, cutoff, new_items, failed, runs, mpc,
                   notMainVars>>

\* run_posting_loop: client.send_post raises; "continue"
SendPostRaises ==
    /\ mpc = "post"
    /\ idx <= Len(new_items)
    /\ attempted' = attempted \cup {new_items[idx]}
    /\ failed' = failed \cup {new_items[idx]}
    /\ idx' = idx + 1
    /\ UNCHANGED <<now, feed, timeline, use_state_file, state_file, last_bsky,
                   last_feed_check, cutoff, new_items, runs, mpc, notMainVars>>

\* write_last_feed_check(args.state_file, arrow.utcnow()) after the loop
WriteLastFeedCheck ==
    /\ mpc = "post"
    /\ idx > Len(new_items)
    /\ state_file' = IF use_state_file THEN now ELSE state_file
    /\ now' = now + 1
    /\ mpc' = "start"
    /\ UNCHANGED <<feed, timeline, use_state_file, last_bsky, last_feed_check,
                   cutoff, new_items, idx, attempted, failed, runs,
                   notMainVars>>

\* write_last_feed_check: open() raises OSError, which is logged
WriteOSError ==
    /\ mpc = "post"
    /\ idx > Len(new_items)
    /\ use_state_file
    /\ now' = now + 1
    /\ mpc' = "start"
    /\ UNCHANGED <<feed, timeline, use_state_file, state_file, last_bsky,
                   last_feed_check, cutoff, new_items, idx, attempted, failed,
                   runs, notMainVars>>

NextMain ==
    \/ Publish
    \/ Login
    \/ FetchNewFeedItems
    \/ FetchRaises
    \/ SendPostOk
    \/ SendPostRaises
    \/ WriteLastFeedCheck
    \/ WriteOSError

(***************************************************************************)
(* Specifications: one per unit, the other units idle                      *)
(***************************************************************************)
FetchInit ==
    InitFetch /\ IdleNormalize /\ IdleRich /\ IdleTrim /\ IdleParse /\ IdleMain

SpecFetch == FetchInit /\ [][NextFetch]_vars

NormalizeInit ==
    InitNormalize /\ IdleFetch /\ IdleRich /\ IdleTrim /\ IdleParse /\ IdleMain

SpecNormalize == NormalizeInit /\ [][NextNormalize]_vars

RichInit ==
    InitRich /\ IdleFetch /\ IdleNormalize /\ IdleTrim /\ IdleParse /\ IdleMain

SpecRich == RichInit /\ [][NextRich]_vars

TrimInit ==
    InitTrim /\ IdleFetch /\ IdleNormalize /\ IdleRich /\ IdleParse /\ IdleMain

SpecTrim == TrimInit /\ [][NextTrim]_vars

ParseInit ==
    InitParse /\ IdleFetch /\ IdleNormalize /\ IdleRich /\ IdleTrim /\ IdleMain

SpecParse == ParseInit /\ [][NextParse]_vars

MainInit ==
    InitMain /\ IdleFetch /\ IdleNormalize /\ IdleRich /\ IdleTrim /\ IdleParse

SpecMain == MainInit /\ [][NextMain]_vars

(***************************************************************************)
(* Claims about _fetch_url                                                 *)
(***************************************************************************)

\* C1: an HTTP error status of 429 or 500..599 is retryable (the next attempt
\* is made when one remains); any other HTTP error status ends the fetch at
\* once with an error carrying that status and reason, whatever the number of
\* attempts left, and no further GET is issued.
C1_StatusPolicy ==
    response.kind = "HTTPError" =>
        IF response.status = 429 \/ response.status \in 500..599
        THEN /\ fresult.kind # "ValueError"
             /\ nGets < Max(1, retries) => fpc \in {"sleep", "open"}
             /\ nGets >= Max(1, retries) => fpc \in {"exhausted", "done"}
        ELSE /\ fpc = "done"
             /\ fresult.kind = "ValueError"
             /\ fresult.status = response.status
             /\ fresult.reason = response.reason
             /\ nGets = attempt

C1_Witness ==
    /\ fpc = "done"
    /\ retries = 3
    /\ nGets = 1
    /\ response.kind = "HTTPError"
    /\ response.status = 404
    /\ fresult.kind = "ValueError"

\* C2: fetch sleeps only between two attempts: after a sleep the next thing
\* it does is a GET, it never ends on a sleep (when it ends, sleeps = GETs - 1),
\* and the number of GETs never exceeds maxAttempts (one GET when
\* maxAttempts is below 1).
C2_SleepOnlyBetweenAttempts ==
    /\ nGets <= Max(1, retries)
    /\ retries < 1 => nGets <= 1
    /\ nSleeps <= nGets
    /\ lastEvent = "SLEEP" => fpc = "open"
    /\ fpc = "done" =>
         /\ lastEvent = "GET"
         /\ nGets >= 1
         /\ nSleeps = nGets - 1

C2_Witness ==
    /\ fpc = "done"
    /\ retries = 3
    /\ nGets = 3
    /\ nSleeps = 2
    /\ fresult.kind = "ConnectionError"

\* The body the spec promises for a successful response: gzip is decompressed,
\* deflate is read as raw DEFLATE first and as zlib-wrapped DEFLATE otherwise,
\* anything else (and an empty body) is passed through.
C3_Decompressed(c, h) ==
    IF c = "" THEN ""
    ELSE CASE h \in {"gzip", " GZip "} -> GzipDecompress(c)
           [] h \in {"deflate", "Deflate"} ->
                IF RawInflate(c) # Fail THEN RawInflate(c) ELSE ZlibDecompress(c)
           [] OTHER -> c

C3_RetryableFailure(e) ==
    \/ e.kind \in {"Timeout", "URLError"}
    \/ e.kind = "HTTPError" /\ (e.status = 429 \/ e.status \in 500..599)

\* C3: when attempt k <= maxAttempts succeeds (a 2xx response whose body
\* decompresses and whose charset, if any, is known) after k-1 retryable
\* failures, fetch returns the decompressed body of attempt k, having slept
\* k-1 times, and issues no GET after it.
C3_SuccessAfterRetries ==
    ( /\ response.kind = "ok"
      /\ C3_Decompressed(response.content, response.encoding) # Fail
      /\ response.charset \in {NoHeader, "utf-8"} )
    =>
    /\ fpc = "done"
    /\ fresult.kind = "ok"
    /\ fresult.data = C3_Decompressed(response.content, response.encoding)
    /\ fresult.type = IF response.charset = NoHeader THEN "bytes" ELSE "str"
    /\ nGets = attempt
    /\ attempt <= Max(1, retries)
    /\ nSleeps = attempt - 1
    /\ attempt > 1 => C3_RetryableFailure(last_exc)

C3_Witness ==
    /\ fpc = "done"
    /\ retries = 3
    /\ nGets = 3
    /\ nSleeps = 2
    /\ last_exc.kind = "HTTPError"
    /\ last_exc.status = 503
    /\ response.kind = "ok"
    /\ response.content = "gz:xml"
    /\ response.encoding = "gzip"
    /\ fresult.kind = "ok"
    /\ fresult.data = "xml"

\* C4 (as claimed): when every attempt failed with a retryable failure, fetch
\* raises TimeoutExceeded if the last failure was a timeout and
\* ConnectionFailed otherwise, and the error carries the number of attempts
\* actually made.
C4_ExhaustedErrorCarriesAttempts ==
    (fpc = "done" /\ fresult.kind \in {"TimeoutError", "ConnectionError"}) =>
        /\ fresult.kind = "TimeoutError" <=> last_exc.kind = "Timeout"
        /\ fresult.attempts = nGets

\* C5: the delay before jitter of the sleep after the k-th failed attempt is
\* min(initialDelay * 2^(k-1), maxDelay), and the sleep is that delay times a
\* jitter factor in [0.7, 1.3).
C5_BackoffSchedule ==
    lastSleep.k > 0 =>
        /\ lastSleep.k <= nGets
        /\ lastSleep.base =
             Min(backoffInitial * Pow2(lastSleep.k - 1), backoffMax)
        /\ lastSleep.base <= backoffMax
        /\ lastSleep.sleep_for * 1000 = lastSleep.base * lastSleep.factor
        /\ 700 <= lastSleep.factor /\ lastSleep.factor < 1300

C5_Witness ==
    /\ lastSleep.k = 3
    /\ backoffInitial = 4000
    /\ backoffMax = 10000
    /\ lastSleep.base = 10000
    /\ lastSleep.factor = 1299

(***************************************************************************)
(* Claims about _collect_categories and the entries of parse               *)
(***************************************************************************)
FirstIndex(s, v) ==
    CHOOSE i \in 1..Len(s) : s[i] = v /\ \A j \in 1..(i - 1) : s[j] # v

\* C6: the deduplicated category list keeps each distinct collected category
\* exactly once, in the order of first occurrence, and the entry's tags are
\* one {term} record per deduplicated category in that order, so no two tags
\* have the same term.
C6_DedupeFirstOccurrence ==
    npc = "done" =>
        /\ \A i, j \in 1..Len(deduped) : i # j => deduped[i] # deduped[j]
        /\ {deduped[i] : i \in 1..Len(deduped)}
             = {collected[i] : i \in 1..Len(collected)}
        /\ \A i, j \in 1..Len(deduped) :
             i < j => FirstIndex(collected, deduped[i])
                        < FirstIndex(collected, deduped[j])
        /\ deduped # <<>> =>
             /\ "tags" \in entry.keys
             /\ Len(entry.tags) = Len(deduped)
             /\ \A i \in 1..Len(deduped) : entry.tags[i].term = deduped[i]
             /\ \A i, j \in 1..Len(entry.tags) :
                  i # j => entry.tags[i].term # entry.tags[j].term

C6_Witness ==
    /\ npc = "done"
    /\ feed_type = "rss"
    /\ collected = << <<"a">>, <<"b">>, <<"a">> >>
    /\ deduped = << <<"a">>, <<"b">> >>
    /\ entry.tags = << [term |-> <<"a">>], [term |-> <<"b">>] >>

\* C7 (as claimed): every entry has category equal to the first deduplicated
\* category and tags equal to one {term} record per deduplicated category;
\* with no category, category is "" and tags is empty, whatever the external
\* entry parser put there; hence non-empty tags imply category = tags[0].term.
C7_CategoryAndTagsFromCategories ==
    npc = "done" =>
        /\ {"category", "tags"} \subseteq entry.keys
        /\ entry.category = IF deduped = <<>> THEN <<>> ELSE deduped[1]
        /\ entry.tags = [i \in 1..Len(deduped) |-> [term |-> deduped[i]]]
        /\ entry.tags # <<>> => entry.category = entry.tags[1].term

\* What C8 says one Atom category element contributes: the first of its
\* trimmed term, label and text that is not empty.
C8_Contribution(cat) ==
    LET cands == <<cat.term, cat.label, cat.text>>
        ok(i) == cands[i] # None /\ Strip(cands[i]) # <<>>
    IN IF \E i \in 1..3 : ok(i)
       THEN <<Strip(cands[CHOOSE i \in 1..3 : ok(i) /\ \A j \in 1..(i - 1) : ~ok(j)])>>
       ELSE <<>>

RECURSIVE C8_Expected(_)
C8_Expected(els) ==
    IF els = <<>> THEN <<>>
    ELSE C8_Contribution(Head(els)) \o C8_Expected(Tail(els))

\* C8 (as claimed): for an Atom item each category element contributes the
\* first of term, label and text that is non-empty after trimming, so the
\* collected category list never contains an empty string.
C8_AtomCandidatesTrimmedBeforeAcceptance ==
    (npc = "done" /\ feed_type = "atom") =>
        /\ collected = C8_Expected(FindAll(item, "atom:category"))
        /\ \A i \in 1..Len(collected) : collected[i] # <<>>

(***************************************************************************)
(* Claims about make_rich                                                  *)
(***************************************************************************)
RECURSIVE ConcatText(_)
ConcatText(ss) == IF ss = <<>> THEN <<>> ELSE Head(ss).text \o ConcatText(Tail(ss))

NewlineSpan == [kind |-> "text", text |-> <<"\n">>, arg |-> <<>>]

\* C9: the display texts of the spans, concatenated in order, are the input
\* text with every line (the last included) followed by a newline; each of
\* these newlines is a PlainText span of its own, and no other span holds
\* one, so no character of a line is lost, duplicated or reordered.
C9_SpansReconstructText ==
    spc = "done" =>
        /\ ConcatText(spans) = mr_content \o <<"\n">>
        /\ spans # <<>> /\ spans[Len(spans)] = NewlineSpan
        /\ \A i \in 1..Len(spans) :
             (\E k \in 1..Len(spans[i].text) : spans[i].text[k] = "\n")
                 => spans[i] = NewlineSpan
        /\ Cardinality({i \in 1..Len(spans) : spans[i] = NewlineSpan})
             = Cardinality({k \in 1..Len(mr_content) : mr_content[k] = "\n"}) + 1

C9_Witness ==
    /\ spc = "done"
    /\ mr_content = <<"#", "a", "\n", "h", "t", "t", "p", "s", ":", "/", "/", "x">>
    /\ \E i \in 1..Len(spans) : spans[i].kind = "tag" /\ spans[i].text = <<"#", "a">>
    /\ \E i \in 1..Len(spans) : spans[i].kind = "link"
    /\ Len(spans) = 6

(***************************************************************************)
(* Claims about trim_link_description                                      *)
(***************************************************************************)

\* C10 (as claimed): truncate(truncate(text, a, b), a, b) = truncate(text, a, b)
\* for every text.
C10_Idempotent ==
    tpc = "twice" => out2 = out1

\* The whitespace-normalized text does not begin with a sentence terminator
\* and each of its terminators is followed by a space, by another terminator
\* or by the end of the text.
C10_WellSpaced(t) ==
    \/ t = None
    \/ LET n == NormalizeSpaces(t) IN
       /\ n # <<>> => ~IsTerminator(n[1])
       /\ \A i \in 1..(Len(n) - 1) :
            IsTerminator(n[i]) => (n[i + 1] = " " \/ IsTerminator(n[i + 1]))

\* C10 (amended): for limits >= 0, truncate is idempotent on every text whose
\* normalized form does not begin with a terminator and has every terminator
\* followed by whitespace, another terminator or the end of the text.
C10_IdempotentWhenWellSpaced ==
    (tpc = "twice" /\ C10_WellSpaced(tl_text)) => out2 = out1

C10_Witness ==
    /\ tpc = "twice"
    /\ tl_text = <<"a", ".", " ", "a", ".">>
    /\ phrase_start_limit = 1
    /\ C10_WellSpaced(tl_text)
    /\ out1 = <<"a", ".">>
    /\ out2 = out1

\* The first k selected phrases as the code joins them
C11_Kept(selected, k) == Strip(Join(SubSeq(selected, 1, k)))

\* C11: for every text and limits with total_limit >= phrase_start_limit, the
\* output of truncate has length <= total_limit or is exactly one phrase of
\* the whitespace-normalized input, returned whole; when phrases are selected
\* the output is the longest run of leading selected phrases that fits in
\* total_limit, or the first phrase alone when not even that one fits.
C11_WithinTotalOrOnePhrase ==
    (tpc \in {"once", "twice"} /\ tl_text # None
        /\ total_limit >= phrase_start_limit) =>
      LET phrases  == PhrasesFrom(NormalizeSpaces(tl_text), 1)
          selected == SelectPhrases(phrases, phrase_start_limit)
      IN /\ \/ Len(out1) <= total_limit
            \/ \E i \in 1..Len(phrases) : out1 = phrases[i].phrase
         /\ selected # <<>> =>
              \E k \in 1..Len(selected) :
                /\ out1 = C11_Kept(selected, k)
                /\ k = 1 \/ Len(out1) <= total_limit
                /\ \A j \in (k + 1)..Len(selected) :
                     Len(C11_Kept(selected, j)) > total_limit

\* "aa. a" with both limits 4: "aa. a" is too long, the phrase "a" is dropped
C11_Witness ==
    /\ tpc = "once"
    /\ tl_text = <<"a", "a", ".", " ", "a">>
    /\ phrase_start_limit = 4
    /\ total_limit = 4
    /\ Len(SelectPhrases(PhrasesFrom(NormalizeSpaces(tl_text), 1), 4)) = 2
    /\ out1 = <<"a", "a", ".">>

\* A single phrase longer than total_limit is returned whole
C11_WholePhraseWitness ==
    /\ tpc = "once"
    /\ tl_text = <<"a", "a", "a", ".">>
    /\ total_limit = 2
    /\ out1 = tl_text

(***************************************************************************)
(* Claims about make_rich: plain lines and hashtags                        *)
(***************************************************************************)

\* A word character as the claims have it: a letter, a digit or an underscore
WordChar(c) == IsAlnum(c) \/ c = "_"

HasUrlMatch(t) == \E i \in 1..Len(t) : UrlEndAt(t, i) # 0

\* A '#' followed by at least one word character
HasHashtagToken(t) ==
    \E i \in 1..(Len(t) - 1) : t[i] = "#" /\ WordChar(t[i + 1])

\* The spans without the empty PlainText spans, which add nothing to the
\* built text, and with neighbouring PlainText spans taken as one
RECURSIVE Coalesce(_)
Coalesce(ss) ==
    IF ss = <<>> THEN <<>>
    ELSE LET h == Head(ss)
             rest == Coalesce(Tail(ss))
         IN IF h.kind = "text" /\ h.text = <<>> THEN rest
            ELSE IF h.kind = "text" /\ rest # <<>> /\ Head(rest).kind = "text"
            THEN <<TextSpan(h.text \o Head(rest).text)>> \o Tail(rest)
            ELSE <<h>> \o rest

\* One PlainText span holding the line, then the newline span, per line
RECURSIVE C12_Expected(_)
C12_Expected(lines) ==
    IF lines = <<>> THEN <<>>
    ELSE <<TextSpan(Head(lines)), NewlineSpan>> \o C12_Expected(Tail(lines))

\* C12: for every text with no URL match and no hashtag match, segment returns
\* for each line one PlainText span holding that line followed by one PlainText
\* newline span, and no other span (a PlainText span of an empty line shows
\* nothing, so PlainText spans are compared by the text they add up to).
C12_PlainSpanPerLine ==
    (spc = "done" /\ ~HasUrlMatch(mr_content) /\ ~HasHashtagToken(mr_content))
        => /\ \A k \in 1..Len(spans) : spans[k].kind = "text"
           /\ Coalesce(spans) =
                Coalesce(C12_Expected(SplitLines(mr_content, <<>>)))

\* The first index >= i of a character that is not a word character
RECURSIVE WordEnd(_, _)
WordEnd(t, i) ==
    IF i > Len(t) \/ ~WordChar(t[i]) THEN i ELSE WordEnd(t, i + 1)

\* The spans the claim gives a text without URL: each maximal '#' + word
\* characters token a Hashtag named by the token without '#', the rest plain
RECURSIVE C13_TokenSpans(_, _, _)
C13_TokenSpans(t, cursor, i) ==
    IF i > Len(t) THEN <<TextSpan(SubSeq(t, cursor, Len(t)))>>
    ELSE IF t[i] = "#" /\ i < Len(t) /\ WordChar(t[i + 1])
         THEN LET e == WordEnd(t, i + 1)
                  token == SubSeq(t, i, e - 1)
              IN <<TextSpan(SubSeq(t, cursor, i - 1)), TagSpan(token, Tail(token))>>
                 \o C13_TokenSpans(t, e, e)
         ELSE C13_TokenSpans(t, cursor, i + 1)

\* The same over a line: the URL matches become Link spans, the text between
\* them is divided into Hashtag and PlainText spans
RECURSIVE C13_LineSpans(_, _, _)
C13_LineSpans(line, cursor, i) ==
    IF i > Len(line) THEN C13_TokenSpans(From(line, cursor), 1, 1)
    ELSE LET e == UrlEndAt(line, i) IN
         IF e = 0 THEN C13_LineSpans(line, cursor, i + 1)
         ELSE LET url == SubSeq(line, i, e - 1)
              IN C13_TokenSpans(SubSeq(line, cursor, i - 1), 1, 1)
                 \o <<LinkSpan(url, url)>>
                 \o C13_LineSpans(line, e, e)

RECURSIVE C13_Expected(_)
C13_Expected(lines) ==
    IF lines = <<>> THEN <<>>
    ELSE C13_LineSpans(Head(lines), 1, 1) \o <<NewlineSpan>>
         \o C13_Expected(Tail(lines))

\* C13: outside URL spans every maximal token of '#' followed by one or more
\* word characters (letters, digits or underscore) becomes one Hashtag span
\* showing the whole token and named by the token without its '#'; all other
\* non-URL text becomes PlainText spans; no Hashtag span comes from the
\* characters of a matched URL.
C13_HashtagTokens ==
    spc = "done" =>
        Coalesce(spans) = Coalesce(C13_Expected(SplitLines(mr_content, <<>>)))

(***************************************************************************)
(* Claims about the feed format dispatch of parse                          *)
(***************************************************************************)

RECURSIVE ElementAt(_, _)
ElementAt(el, path) ==
    IF path = <<>> THEN el
    ELSE ElementAt(el.children[Head(path)], Tail(path))

\* The paths of the elements beneath el, two levels deep
PathsBeneath(el) ==
    {<<k>> : k \in 1..Len(el.children)}
    \cup UNION {{<<k, j>> : j \in 1..Len(el.children[k].children)} :
                  k \in 1..Len(el.children)}

\* items holds exactly the elements of S, each once
C14_ItemsAre(S) ==
    /\ {items[i] : i \in 1..Len(items)} = S
    /\ Len(items) = Cardinality(S)

C14_Classified(type, ch, S) ==
    /\ ppc = "done"
    /\ error = NoError
    /\ parse_feed_type = type
    /\ channel = ch
    /\ C14_ItemsAre(S)

C14_Rejected(e) == ppc = "raised" /\ error = e

\* C14: empty or whitespace-only content is rejected with EmptyContent before
\* any XML parsing; a root with local name rss gives rss with the item
\* children of the first channel child, or MissingChannel without a channel
\* child; an Atom feed root gives atom with every Atom entry beneath it; an
\* RDF root gives rdf with every RSS-1.0 item beneath it, or with the
\* unqualified item children when there is none; any other root gives
\* UnknownFeedType; every input gets exactly one outcome.
C14_DispatchCases ==
    LET r == xml_content.root
        beneath == PathsBeneath(r)
        channels == {k \in 1..Len(r.children) :
                        r.children[k].tag = QName("", "channel")}
        first == CHOOSE k \in channels : \A m \in channels : k <= m
        tagged(S, tag) == {q \in S : ElementAt(r, q).tag = tag}
        rss1Items == tagged(beneath, QName(Rss1NS, "item"))
    IN /\ ppc \in {"check", "fromstring", "dispatch"} => ENABLED NextParse
       /\ ppc = "done" => error = NoError
       /\ ppc = "raised" => error # NoError
       /\ ppc \in {"done", "raised"} =>
            IF Strip(xml_content.chars) = <<>>
            THEN C14_Rejected(EmptyContentError) /\ ~xml_parsed
            ELSE IF xml_content.etree # "root"
            THEN ppc = "raised" /\ error \in {SyntaxErrorError, RootNoneError}
            ELSE IF r.tag.local = "rss"
            THEN IF channels = {}
                 THEN C14_Rejected(MissingChannelError)
                 ELSE C14_Classified("rss", <<first>>,
                        tagged({<<first, j>> :
                                  j \in 1..Len(r.children[first].children)},
                               QName("", "item")))
            ELSE IF r.tag = QName(AtomNS, "feed")
            THEN C14_Classified("atom", <<>>,
                                tagged(beneath, QName(AtomNS, "entry")))
            ELSE IF r.tag = QName(RdfNS, "RDF")
            THEN C14_Classified("rdf", <<>>,
                   IF rss1Items # {} THEN rss1Items
                   ELSE tagged({<<k>> : k \in 1..Len(r.children)},
                               QName("", "item")))
            ELSE C14_Rejected(UnknownFeedTypeError)

\* An Atom feed whose entries sit at both levels beneath the root
C14_Witness ==
    /\ ppc = "done"
    /\ parse_feed_type = "atom"
    /\ root.tag = QName(AtomNS, "feed")
    /\ Len(root.children) = 2
    /\ items = << <<1>>, <<1, 1>>, <<2, 2>> >>

\* A namespaced rss root: the items of its first channel child
C14_RssWitness ==
    /\ ppc = "done"
    /\ root.tag = QName(OtherNS, "rss")
    /\ parse_feed_type = "rss"
    /\ channel = <<2>>
    /\ items = << <<2, 1>>, <<2, 3>> >>

\* An RDF root without any RSS-1.0 item: the unqualified item children
C14_RdfFallbackWitness ==
    /\ ppc = "done"
    /\ parse_feed_type = "rdf"
    /\ Len(root.children) = 1
    /\ root.children[1].tag = QName("", "item")
    /\ root.children[1].children # <<>>
    /\ items = << <<1>> >>

C14_EmptyWitness ==
    /\ ppc = "raised"
    /\ xml_content.chars = <<"\n", " ">>
    /\ error = EmptyContentError
    /\ ~xml_parsed

(***************************************************************************)
(* Claims about the runs of main                                           *)
(***************************************************************************)

\* The items that have been posted
Sent == {timeline[k].item : k \in 1..Len(timeline)}

\* C15: an item whose send_post raised in one run is sent in a later run or
\* still has rss_time greater than the cutoff the next run computes; and the
\* posting loop goes on to the remaining items after a failed send, so that
\* send_post has been called for every new item when the loop ends.
C15_NoFailedItemLost ==
    /\ mpc = "fetch" =>
         \A id \in failed : id \in Sent \/ feed[id] > cutoff
    /\ (mpc = "post" /\ idx > Len(new_items)) =>
         attempted = {new_items[k] : k \in 1..Len(new_items)}

====
